---- MODULE Spec2Model ----
(***************************************************************************)
(* idawasm processor module (src/idawasm/processor.py): the load pass that *)
(* builds the tables and the branch-target map of a WebAssembly module,    *)
(* and the instruction emulation that turns the map into code              *)
(* cross-references.                                                       *)
(***************************************************************************)
EXTENDS Integers, Sequences, FiniteSets, TLC

\* ------------------------------------------------------------------ bounds
\* deepest relative depth a generated branch names
MaxDepth == 1
\* most scope-opening instructions at the head of a generated body
MaxOpen == 2
\* most function bodies in a generated code section
MaxBodies == 2
\* the number of loads on one processor object
MaxLoads == 2

\* ------------------------------------------------------- program constants
\* Python None, for a block offset that is not set
None == -1
\* the key 'block' of a branch-target entry (the other keys are relative depths)
BlockKey == -2

\* ------------------------------------------------------------ instructions
Insn(op, imm) == [op |-> op, imm |-> imm]
Block == Insn("block", <<>>)
Loop == Insn("loop", <<>>)
If == Insn("if", <<>>)
Else == Insn("else", <<>>)
End == Insn("end", <<>>)
Return == Insn("return", <<>>)
Unreachable == Insn("unreachable", <<>>)
Nop == Insn("nop", <<>>)
I32Const(v) == Insn("i32.const", <<v>>)
Br(d) == Insn("br", <<d>>)
BrIf(d) == Insn("br_if", <<d>>)
\* imm of br_table: the target table followed by the default target
BrTable(table, default) == Insn("br_table", Append(table, default))

\* bc.len: the encoded size of an instruction (opcode byte plus immediates)
InsnLen(bc) ==
  CASE bc.op \in {"block", "loop", "if"} -> 2
    [] bc.op \in {"br", "br_if", "i32.const"} -> 2
    [] bc.op = "br_table" -> 2 + Len(bc.imm)
    [] OTHER -> 1

\* size of the code of a body
RECURSIVE CodeSize(_)
CodeSize(code) ==
  IF code = <<>> THEN 0 ELSE InsnLen(Head(code)) + CodeSize(Tail(code))

\* address of the i-th instruction of a body whose code starts at offset
RECURSIVE InsnAddr(_, _, _)
InsnAddr(offset, code, i) ==
  IF i = 1 THEN offset ELSE InsnAddr(offset + InsnLen(Head(code)), Tail(code), i - 1)

\* pcode of the k-th body: pbody + offset_of(body, 'code'), pbody advancing by size_of(body)
RECURSIVE BodyOffset(_, _)
BodyOffset(bodies, k) ==
  IF k = 1 THEN 3
  ELSE BodyOffset(bodies, k - 1) + CodeSize(bodies[k - 1]) + 2

\* ----------------------------------------------------------------- inputs
SectionIds == {"type", "import", "function", "global", "export", "code", "data"}

Depths == 0 .. MaxDepth
Openers == {Block, Loop, If}
Branches ==
  {Br(d) : d \in Depths} \cup {BrIf(d) : d \in Depths}
    \cup {BrTable(<<t>>, d) : t \in Depths, d \in Depths}
Subjects == Branches \cup {Return, Unreachable, Nop, Else}
Followers == {Nop, Unreachable, Block}

SeqsUpTo(S, n) == UNION {[1 .. m -> S] : m \in 0 .. n}
Ends(k) == [i \in 1 .. k |-> End]

\* a body: scopes opened, one instruction and what follows it, and then no End,
\* one End, or the Ends that close every scope and the function
Opened(q) == Len(SelectSeq(q, LAMBDA x : x \in Openers))
Bodies ==
  UNION {{o \o m \o Ends(n) : n \in {0, 1, Opened(o \o m) + 1}} :
           o \in SeqsUpTo(Openers, MaxOpen),
           m \in {<<x>> : x \in Subjects}
                    \cup {<<x, y>> : x \in Subjects, y \in Followers}}

\* an entry of the import section and an entry of the export section
Import(kind, field) == [kind |-> kind, module |-> "env", field |-> field]
Export(kind, index, field) == [kind |-> kind, index |-> index, field |-> field]

\* a decoded module: the ids of its sections, the bodies of its code section, the
\* entries of its import and export sections
ModuleWith(secs, bodies, imports, exports) ==
  [secs |-> secs, bodies |-> bodies, imports |-> imports, exports |-> exports]
Module(secs, bodies) == ModuleWith(secs, bodies, <<>>, <<>>)

\* bodies that go on after the End that terminates the function
TailBodies ==
  {h \o t : h \in {<<End>>, <<Block, End, End>>},
            t \in {<<Nop>>, <<Br(0)>>, <<Block, Br(0), End>>, <<End>>}}

\* a conditional branch at the end of a block, after the push of its condition
ScenarioA == <<Block, I32Const(0), BrIf(0), End>>
\* an unconditional branch at the end of a loop
ScenarioB == <<Loop, Br(0), End>>
\* a function that is an Unreachable
ScenarioC == <<Unreachable, End>>

\* two branch tables that reach the outer block, by relative depth 0 and by 1
ScenarioD ==
  <<Block, BrTable(<<0>>, 0), Block, BrTable(<<1>>, 1), End, End, End>>

\* modules with every section and one function body
FuncFiles ==
  {Module(SectionIds, <<b>>) :
     b \in Bodies \cup TailBodies \cup {ScenarioA, ScenarioB, ScenarioC, ScenarioD}}

\* modules with one to MaxBodies short bodies, lacking at most one section
ShortBodies ==
  {<<x, End>> : x \in {Nop} \cup {Br(d) : d \in Depths}}
    \cup {<<Block, Br(d), End, End>> : d \in Depths}
ModuleFiles ==
  {Module(secs, IF "code" \in secs THEN bs ELSE <<>>) :
     secs \in {SectionIds} \cup {SectionIds \ {s} : s \in SectionIds},
     bs \in UNION {[1 .. n -> ShortBodies] : n \in 1 .. MaxBodies}}

\* modules with imports and exports, one or two bodies, lacking at most the import
\* or the export section
ImportLists ==
  SeqsUpTo({Import("function", "a"), Import("function", "b"), Import("global", "g")}, 2)
ExportLists ==
  SeqsUpTo({Export("function", i, "main") : i \in 0 .. 2}
             \cup {Export("global", 0, "main")}, 1)
    \cup {<<Export("function", i, "main"), Export("function", i, "aux")>> : i \in 1 .. 2}
TableFiles ==
  {ModuleWith(secs,
              bs,
              IF "import" \in secs THEN im ELSE <<>>,
              IF "export" \in secs THEN ex ELSE <<>>) :
     secs \in {SectionIds, SectionIds \ {"import"}, SectionIds \ {"export"}},
     bs \in {<<<<Nop, End>>>>, <<<<Nop, End>>, <<Nop, End>>>>},
     im \in ImportLists,
     ex \in ExportLists}

Files == FuncFiles \cup ModuleFiles \cup TableFiles

\* ------------------------------------------------------------------ state
VARIABLES
  file,             \* the module held by the database segments (the input of load)
  pc,               \* position of the host call in progress
  exc,              \* the exception the last load ended with, "none" if it returned
  sections,         \* self.sections, as the ids of the sections decoded
  types,            \* self.types
  globals,          \* self.globals
  functions,        \* self.functions
  data,             \* self.data
  branch_targets,   \* self.branch_targets
  deferred_flows,   \* self.deferred_flows
  deferred_noflows, \* self.deferred_noflows, as the set of its keys
  acc,              \* branch_targets, local of _compute_branch_targets
  k,                \* index of the body _compute_branch_targets is at
  fn_targets,       \* branch_targets, local of _compute_function_branch_targets
  blocks,           \* blocks, local of _compute_function_branch_targets
  block_stack,      \* block_stack, local, the top of the stack first
  pi,               \* index of the instruction the pass is at
  p,                \* p, local: the address of that instruction
  named,            \* offsets the load gave a name to (ida_name.set_name)
  emu,              \* the last ev_emu_insn call: its address, the crefs it added with
                    \* ida_xref.add_cref, the value it returned
  loads,            \* history: the number of calls of load on this object
  prev,             \* history: the buffer and the tables the load before this one left
  hist,             \* history: for the addresses emulated since this buffer was first
                    \* loaded, the crefs their first emulation added
  consulted         \* history: the addresses of the End instructions emulated, since
                    \* this load began, with a deferred entry in place

vars ==
  <<file, pc, exc, sections, types, globals, functions, data, branch_targets,
    deferred_flows, deferred_noflows, acc, k, fn_targets, blocks, block_stack,
    pi, p, named, emu, loads, prev, hist, consulted>>

tables == <<sections, types, globals, functions, data>>
locals == <<acc, k, fn_targets, blocks, block_stack, pi, p>>
deferred == <<deferred_flows, deferred_noflows>>
history == <<loads, prev, hist, consulted>>

EmptyMap == <<>>
Has(m, key) == key \in DOMAIN m
\* dict.update / dict item assignment
Update(m, n) == n @@ m
NoEmu == [ea |-> None, crefs |-> {}, ret |-> None]
NoLoad == [file |-> None]

\* wasm_processor_t.__init__
Construct ==
  /\ pc = "init"
  /\ exc = "none"
  /\ sections = {}
  /\ types = <<>>
  /\ globals = EmptyMap
  /\ functions = EmptyMap
  /\ data = EmptyMap
  /\ branch_targets = EmptyMap
  /\ deferred_flows = EmptyMap
  /\ deferred_noflows = {}
  /\ acc = EmptyMap
  /\ k = 0
  /\ fn_targets = EmptyMap
  /\ blocks = <<>>
  /\ block_stack = <<>>
  /\ pi = 0
  /\ p = 0
  /\ named = {}
  /\ emu = NoEmu
  /\ loads = 0
  /\ prev = NoLoad
  /\ hist = EmptyMap
  /\ consulted = {}

Init == file \in Files /\ Construct

\* --------------------------------------------------------- section tables
\* _get_section: the section is found, or SectionNotFoundError is raised
HasSection(id) == id \in file.secs

Raised == [ok |-> FALSE, val |-> <<>>]
Parsed(v) == [ok |-> TRUE, val |-> v]

_parse_types == IF HasSection("type") THEN Parsed(<<"func">>) ELSE Raised

\* the entries of a kind, in the order of their section
OfKind(entries, kind) == SelectSeq(entries, LAMBDA entry : entry.kind = kind)

_parse_imported_globals ==
  IF ~HasSection("import") THEN Raised
  ELSE LET bodies == OfKind(file.imports, "global")
       IN Parsed([i \in 0 .. Len(bodies) - 1 |->
                    [index |-> i, offset |-> 0,
                     name |-> <<bodies[i + 1].module, ".", bodies[i + 1].field>>]])

_parse_globals ==
  IF ~_parse_imported_globals.ok THEN Raised
  ELSE IF ~HasSection("global") THEN Raised
  ELSE LET i == Cardinality(DOMAIN _parse_imported_globals.val)
       IN Parsed(Update(_parse_imported_globals.val,
                        i :> [index |-> i, offset |-> 1, name |-> <<"global_", i>>]))

\* (mutant of _parse_imported_functions: the imports take no function index)
NoImportedFunctions == Parsed(EmptyMap)
_parse_imported_functions ==
  IF ~(HasSection("import") /\ HasSection("type")) THEN Raised
  ELSE LET entries == OfKind(file.imports, "function")
       IN Parsed([function_index \in 0 .. Len(entries) - 1 |->
                    [index |-> function_index,
                     module |-> entries[function_index + 1].module,
                     name |-> <<entries[function_index + 1].field>>,
                     imported |-> TRUE,
                     exported |-> FALSE]])

\* functions[entry.index] = ... for each entry in turn: the last entry of an index
\* is the one the dict keeps
_parse_exported_functions ==
  IF ~HasSection("export") THEN Raised
  ELSE LET entries == OfKind(file.exports, "function")
           last(index) == CHOOSE n \in DOMAIN entries :
                            /\ entries[n].index = index
                            /\ \A h \in DOMAIN entries : entries[h].index = index => h <= n
       IN Parsed([index \in {entries[n].index : n \in DOMAIN entries} |->
                    [index |-> index,
                     name |-> <<entries[last(index)].field>>,
                     exported |-> TRUE,
                     imported |-> FALSE]])

_parse_functions ==
  LET imported_functions ==
        IF _parse_imported_functions.ok THEN _parse_imported_functions.val ELSE EmptyMap
      exported_functions ==
        IF _parse_exported_functions.ok THEN _parse_exported_functions.val ELSE EmptyMap
      n == Cardinality(DOMAIN imported_functions)
      defined ==
        [function_index \in n .. n + Len(file.bodies) - 1 |->
           LET i == function_index - n + 1
           IN [index |-> function_index,
               name |-> IF Has(exported_functions, function_index)
                        THEN exported_functions[function_index].name
                        ELSE <<"$func", function_index>>,
               offset |-> BodyOffset(file.bodies, i),
               exported |-> Has(exported_functions, function_index),
               imported |-> FALSE,
               size |-> CodeSize(file.bodies[i])]]
  IN IF HasSection("function") /\ HasSection("code") /\ HasSection("type")
     THEN Parsed(Update(imported_functions, defined))
     ELSE Raised

_parse_data ==
  IF HasSection("data")
  THEN Parsed(0 :> [index |-> 0, offset |-> 0, size |-> 1])
  ELSE Raised

\* a table is assigned when its parser returns and keeps its value when it raises
Assign(old, parse) == IF parse.ok THEN parse.val ELSE old

\* load, up to the call of _compute_branch_targets
LoadTables ==
  /\ pc = "init"
  /\ sections' = file.secs
  /\ types' = Assign(types, _parse_types)
  /\ globals' = Assign(globals, _parse_globals)
  /\ functions' = Assign(functions, _parse_functions)
  /\ data' = Assign(data, _parse_data)
  /\ pc' = "compute"
  /\ loads' = loads + 1
  /\ UNCHANGED <<file, exc, branch_targets, deferred, locals, named, emu>>
  /\ UNCHANGED <<prev, hist, consulted>>

\* ------------------------------------------------- control-flow resolver
Code == file.bodies[k]
bc == Code[pi]
ResetLocals ==
  /\ acc' = EmptyMap
  /\ k' = 0
  /\ fn_targets' = EmptyMap
  /\ blocks' = <<>>
  /\ block_stack' = <<>>
  /\ pi' = 0
  /\ p' = 0

\* the for loop of _compute_branch_targets reaches body j: the pass over it starts
\* with empty tables at the offset of its code, or the loop is over
NextBody(j) ==
  /\ k' = j
  /\ fn_targets' = EmptyMap
  /\ blocks' = <<>>
  /\ block_stack' = <<>>
  /\ IF j <= Len(file.bodies)
     THEN /\ pc' = "pass"
          /\ pi' = 1
          /\ p' = BodyOffset(file.bodies, j)
     ELSE /\ pc' = "finish"
          /\ pi' = 0
          /\ p' = 0

\* _compute_branch_targets, up to its first body: without a code section
\* _get_section raises, and nothing in load catches it
ComputeBranchTargets ==
  /\ pc = "compute"
  /\ IF HasSection("code")
     THEN /\ acc' = EmptyMap
          /\ NextBody(1)
          /\ exc' = exc
     ELSE /\ pc' = "raised"
          /\ exc' = "SectionNotFoundError"
          /\ UNCHANGED locals
  /\ UNCHANGED <<file, tables, branch_targets, deferred, named, emu, history>>

\* the block a scope-opening instruction creates
NewBlock(index, offset, depth, type) ==
  [index |-> index, offset |-> offset, end_offset |-> None, else_offset |-> None,
   br_table_target |-> None, depth |-> depth, type |-> type]

\* (mutant of FunctionBlock: the end is the address after the End)
FunctionBlockPastEnd(offset, end_offset) ==
  [index |-> None, offset |-> offset, end_offset |-> end_offset + 1,
   else_offset |-> None, br_table_target |-> None, depth |-> 0, type |-> "function"]
\* the block recorded for the end of the function
FunctionBlock(offset, end_offset) ==
  [index |-> None, offset |-> offset, end_offset |-> end_offset, else_offset |-> None,
   br_table_target |-> None, depth |-> 0, type |-> "function"]

\* (mutant of SetBlock: the field is set in every block of the table)
SetEveryBlock(bs, index, f, v) == [i \in DOMAIN bs |-> [bs[i] EXCEPT ![f] = v]]
\* block[f] = v, on the block table
SetBlock(bs, index, f, v) == [bs EXCEPT ![index + 1][f] = v]

\* (mutant of SetTargets: the entries hold copies, which do not see the assignment)
KeepTargets(ts, index, f, v) == ts
\* block[f] = v, as seen through the entries that refer to the same block
SetTargets(ts, index, f, v) ==
  [a \in DOMAIN ts |->
     [key \in DOMAIN ts[a] |->
        IF ts[a][key].index = index THEN [ts[a][key] EXCEPT ![f] = v] ELSE ts[a][key]]]

\* block_stack[relative_depth]: the index found, or IndexError
InRange(stack, relative_depth) == relative_depth < Len(stack)
\* (mutant of StackAt: the stack indexed from its bottom)
StackFromBottom(stack, relative_depth) == stack[Len(stack) - relative_depth]
StackAt(stack, relative_depth) == stack[relative_depth + 1]

Stepping == pc = "pass" /\ pi <= Len(Code)
Advance ==
  /\ p' = p + InsnLen(bc)
  /\ pi' = pi + 1
\* (mutant of RaiseInPass: the error is swallowed and the pass goes on)
SwallowInPass(e) ==
  /\ Advance
  /\ UNCHANGED <<pc, exc, acc, k, fn_targets, blocks, block_stack>>
\* an exception leaves the pass: its locals are out of reach from then on
RaiseInPass(e) ==
  /\ pc' = "raised"
  /\ exc' = e
  /\ UNCHANGED locals
StepFrame == <<file, tables, branch_targets, deferred, named, emu, acc, k, history>>

\* Block, Loop, If
StepEnter ==
  /\ Stepping
  /\ bc.op \in {"block", "loop", "if"}
  /\ LET block_index == Len(blocks)
         block == NewBlock(block_index, p, Len(block_stack), bc.op)
     IN /\ blocks' = Append(blocks, block)
        /\ block_stack' = <<block_index>> \o block_stack
        /\ fn_targets' = Update(fn_targets, p :> (BlockKey :> block))
  /\ Advance
  /\ UNCHANGED <<pc, exc>>
  /\ UNCHANGED StepFrame

\* End
StepEnd ==
  /\ Stepping
  /\ bc.op = "end"
  /\ IF Len(block_stack) = 0
     THEN /\ fn_targets' =
               Update(fn_targets,
                      p :> (BlockKey :> FunctionBlock(BodyOffset(file.bodies, k), p)))
          /\ pc' = "break"
          /\ UNCHANGED <<blocks, block_stack, pi, p>>
     ELSE LET block_index == Head(block_stack)
              end_offset == p + InsnLen(bc)
              bs == SetBlock(blocks, block_index, "end_offset", end_offset)
          IN /\ block_stack' = Tail(block_stack)
             /\ blocks' = bs
             /\ fn_targets' =
                  Update(SetTargets(fn_targets, block_index, "end_offset", end_offset),
                         p :> (BlockKey :> bs[block_index + 1]))
             /\ Advance
             /\ pc' = pc
  /\ exc' = exc
  /\ UNCHANGED StepFrame

\* Br, BrIf
StepBr ==
  /\ Stepping
  /\ bc.op \in {"br", "br_if"}
  /\ LET relative_depth == bc.imm[1]
     IN IF InRange(block_stack, relative_depth)
        THEN /\ fn_targets' =
                  Update(fn_targets,
                         p :> (relative_depth :>
                                 blocks[StackAt(block_stack, relative_depth) + 1]))
             /\ Advance
             /\ UNCHANGED <<pc, exc, blocks, block_stack>>
        ELSE RaiseInPass("IndexError")
  /\ UNCHANGED StepFrame

\* the If blocks open on the stack, the nearest first
OpenIfs(bs, stack) == SelectSeq(stack, LAMBDA index : bs[index + 1].type = "if")

\* Else
StepElse ==
  /\ Stepping
  /\ bc.op = "else"
  /\ LET ifs == OpenIfs(blocks, block_stack)
     IN IF ifs = <<>>
        THEN UNCHANGED <<blocks, fn_targets>>
        ELSE LET block_index == Head(ifs)
                 else_offset == p + InsnLen(bc)
                 bs == SetBlock(blocks, block_index, "else_offset", else_offset)
             IN /\ blocks' = bs
                /\ fn_targets' =
                     Update(SetTargets(fn_targets, block_index, "else_offset", else_offset),
                            p :> (BlockKey :> bs[block_index + 1]))
  /\ Advance
  /\ UNCHANGED <<pc, exc, block_stack>>
  /\ UNCHANGED StepFrame

\* the loop over the targets of a BrTable, from the state st = [blocks, targets, ok]
RECURSIVE BrTableLoop(_, _, _, _)
BrTableLoop(depths, stack, ea, st) ==
  IF depths = <<>> \/ ~st.ok THEN st
  ELSE LET relative_depth == Head(depths)
       IN IF ~InRange(stack, relative_depth)
          THEN [st EXCEPT !.ok = FALSE]
          ELSE LET block_index == StackAt(stack, relative_depth)
                   bs == SetBlock(st.blocks, block_index, "br_table_target", relative_depth)
                   ts == SetTargets(st.targets, block_index, "br_table_target",
                                    relative_depth)
               IN BrTableLoop(Tail(depths), stack, ea,
                    [blocks |-> bs,
                     targets |->
                       [ts EXCEPT ![ea] = Update(@, relative_depth :> bs[block_index + 1])],
                     ok |-> TRUE])

\* BrTable
StepBrTable ==
  /\ Stepping
  /\ bc.op = "br_table"
  /\ LET st == BrTableLoop(bc.imm, block_stack, p,
                           [blocks |-> blocks,
                            targets |-> Update(fn_targets, p :> EmptyMap),
                            ok |-> TRUE])
     IN IF st.ok
        THEN /\ blocks' = st.blocks
             /\ fn_targets' = st.targets
             /\ Advance
             /\ UNCHANGED <<pc, exc, block_stack>>
        ELSE RaiseInPass("IndexError")
  /\ UNCHANGED StepFrame

\* any other instruction
StepOther ==
  /\ Stepping
  /\ bc.op \notin {"block", "loop", "if", "end", "br", "br_if", "else", "br_table"}
  /\ Advance
  /\ UNCHANGED <<pc, exc, fn_targets, blocks, block_stack>>
  /\ UNCHANGED StepFrame

\* _compute_function_branch_targets returns (the code is exhausted, or the break
\* at the end of the function) and _compute_branch_targets merges what it returns
FunctionReturn ==
  /\ pc = "break" \/ (pc = "pass" /\ pi > Len(Code))
  /\ acc' = Update(acc, fn_targets)
  /\ NextBody(k + 1)
  /\ UNCHANGED <<file, exc, tables, branch_targets, deferred, named, emu, history>>

\* load, from the return of _compute_branch_targets to its end
LoadFinish ==
  /\ pc = "finish"
  /\ branch_targets' = acc
  /\ deferred_noflows' = {}
  /\ deferred_flows' = EmptyMap
  /\ named' = named \cup {functions[i].offset :
                             i \in {j \in DOMAIN functions : "offset" \in DOMAIN functions[j]}}
  /\ ResetLocals
  /\ pc' = "idle"
  /\ exc' = "none"
  /\ UNCHANGED <<file, tables, emu, history>>

\* no_exceptions: the exception that left load is logged, and 0 is returned
NoExceptions ==
  /\ pc = "raised"
  /\ ResetLocals
  /\ pc' = "idle"
  /\ UNCHANGED <<file, exc, tables, branch_targets, deferred, named, emu, history>>

Load ==
  \/ LoadTables
  \/ ComputeBranchTargets
  \/ StepEnter
  \/ StepEnd
  \/ StepBr
  \/ StepElse
  \/ StepBrTable
  \/ StepOther
  \/ FunctionReturn
  \/ LoadFinish
  \/ NoExceptions

\* ------------------------------------------------------ edge synthesis
fl_F(frm, to) == <<frm, to, "fl_F">>
fl_JF(frm, to) == <<frm, to, "fl_JF">>

\* the instructions of the module: body j, position i
Sites == UNION {{<<j, i>> : i \in 1 .. Len(file.bodies[j])} : j \in 1 .. Len(file.bodies)}
SiteEa(s) == InsnAddr(BodyOffset(file.bodies, s[1]), file.bodies[s[1]], s[2])
SiteInsn(s) == file.bodies[s[1]][s[2]]
\* insn_t of the instruction at a site: Op1.value is the relative depth of a branch
InsnT(s) ==
  LET b == SiteInsn(s)
  IN [ea |-> SiteEa(s), size |-> InsnLen(b), itype |-> b.op,
      Op1 |-> IF b.op \in {"br", "br_if"} THEN b.imm[1] ELSE None,
      imm |-> b.imm]
\* decode_insn at insn.ea + insn.size: the next instruction of the body, if any
NoInsn == [ea |-> None, size |-> 0, itype |-> "none", Op1 |-> None, imm |-> <<>>]
NextInsnT(s) ==
  IF s[2] < Len(file.bodies[s[1]]) THEN InsnT(<<s[1], s[2] + 1>>) ELSE NoInsn

\* what a handler did: the crefs it added, the deferred maps it leaves, its value
\* (0 when an exception ended it, which no_exceptions turns into 0)
Done(crefs, flows, noflows, ret) ==
  [crefs |-> crefs, flows |-> flows, noflows |-> noflows, ret |-> ret]

\* ida_xref.add_cref called on each of a list of flows in turn: a target that is
\* None is a TypeError, which ends the calls
RECURSIVE AddCrefs(_)
AddCrefs(fs) ==
  IF fs = <<>> THEN [crefs |-> {}, ok |-> TRUE]
  ELSE IF Head(fs)[2] = None THEN [crefs |-> {}, ok |-> FALSE]
  ELSE LET r == AddCrefs(Tail(fs))
       IN [crefs |-> {Head(fs)} \cup r.crefs, ok |-> r.ok]

\* the keys of the entry of a BrTable in the order the pass inserted them
RECURSIVE Dedup(_)
Dedup(q) ==
  IF q = <<>> THEN <<>>
  ELSE <<Head(q)>> \o Dedup(SelectSeq(Tail(q), LAMBDA x : x # Head(q)))
Values(insn, targets) ==
  LET keys == IF insn.itype = "br_table"
              THEN SelectSeq(Dedup(insn.imm), LAMBDA key : Has(targets, key))
              ELSE IF Has(targets, BlockKey) THEN <<BlockKey>>
              ELSE IF Has(targets, insn.Op1) THEN <<insn.Op1>>
              ELSE <<>>
  IN [n \in 1 .. Len(keys) |-> targets[keys[n]]]
Map(f(_), q) == [n \in 1 .. Len(q) |-> f(q[n])]

\* (mutant of notify_emu_BR_END: the END is not marked in deferred_noflows)
BrEndUnmarked(insn, next) ==
  LET flow == {fl_F(insn.ea, insn.ea + insn.size)}
  IN IF ~Has(branch_targets, insn.ea) THEN Done(flow, deferred_flows, deferred_noflows, 1)
     ELSE IF ~Has(branch_targets[insn.ea], insn.Op1)
     THEN Done(flow, deferred_flows, deferred_noflows, 0)
     ELSE LET target_va == branch_targets[insn.ea][insn.Op1].end_offset
          IN Done(flow,
                  Update(deferred_flows, next.ea :> <<fl_JF(next.ea, target_va)>>),
                  deferred_noflows, 1)
notify_emu_BR_END(insn, next) ==
  LET flow == {fl_F(insn.ea, insn.ea + insn.size)}
      noflows == deferred_noflows \cup {next.ea}
  IN IF ~Has(branch_targets, insn.ea) THEN Done(flow, deferred_flows, noflows, 1)
     ELSE IF ~Has(branch_targets[insn.ea], insn.Op1)
     THEN Done(flow, deferred_flows, noflows, 0)
     ELSE LET target_va == branch_targets[insn.ea][insn.Op1].end_offset
          IN Done(flow,
                  Update(deferred_flows, next.ea :> <<fl_JF(next.ea, target_va)>>),
                  noflows, 1)

\* (mutant of notify_emu_BR_IF_END: the END is marked in deferred_noflows, as after BR)
BrIfEndMarked(insn, next) == notify_emu_BR_END(insn, next)
notify_emu_BR_IF_END(insn, next) ==
  LET flow == {fl_F(insn.ea, insn.ea + insn.size)}
  IN IF ~Has(branch_targets, insn.ea) THEN Done(flow, deferred_flows, deferred_noflows, 1)
     ELSE IF ~Has(branch_targets[insn.ea], insn.Op1)
     THEN Done(flow, deferred_flows, deferred_noflows, 0)
     ELSE LET target_va == branch_targets[insn.ea][insn.Op1].end_offset
          IN Done(flow,
                  Update(deferred_flows, next.ea :> <<fl_JF(next.ea, target_va)>>),
                  deferred_noflows, 1)

notify_emu_BR_TABLE_END(insn, next) ==
  IF ~Has(branch_targets, insn.ea) THEN Done({}, deferred_flows, deferred_noflows, 1)
  ELSE LET added ==
             AddCrefs(Map(LAMBDA target_block : fl_JF(insn.ea, target_block.end_offset),
                          Values(insn, branch_targets[insn.ea])))
       IN Done(added.crefs, deferred_flows, deferred_noflows, IF added.ok THEN 1 ELSE 0)

\* (mutant of notify_emu_RETURN_END: the RETURN marks its own address)
ReturnEndMarksSelf(insn, next) ==
  Done({fl_F(insn.ea, insn.ea + insn.size)}, deferred_flows,
       deferred_noflows \cup {insn.ea}, 1)
notify_emu_RETURN_END(insn, next) ==
  Done({fl_F(insn.ea, insn.ea + insn.size)}, deferred_flows,
       deferred_noflows \cup {next.ea}, 1)

\* (mutant of notify_emu_UNREACHABLE_END: the UNREACHABLE flows to the END, as RETURN)
UnreachableEndFlows(insn, next) ==
  Done({fl_F(insn.ea, insn.ea + insn.size)}, deferred_flows,
       deferred_noflows \cup {next.ea}, 1)
notify_emu_UNREACHABLE_END(insn, next) ==
  Done({}, deferred_flows, deferred_noflows \cup {next.ea}, 0)

\* (mutant of notify_emu_BR: a branch to a Loop jumps to the start of the Loop)
BrToLoopStart(insn) ==
  IF ~Has(branch_targets, insn.ea) THEN Done({}, deferred_flows, deferred_noflows, 1)
  ELSE IF ~Has(branch_targets[insn.ea], insn.Op1)
  THEN Done({}, deferred_flows, deferred_noflows, 0)
  ELSE LET target_block == branch_targets[insn.ea][insn.Op1]
           target_va == IF target_block.type = "loop" THEN target_block.offset
                        ELSE target_block.end_offset
           added == AddCrefs(<<fl_JF(insn.ea, target_va)>>)
       IN Done(added.crefs, deferred_flows, deferred_noflows, IF added.ok THEN 1 ELSE 0)
notify_emu_BR(insn) ==
  IF ~Has(branch_targets, insn.ea) THEN Done({}, deferred_flows, deferred_noflows, 1)
  ELSE IF ~Has(branch_targets[insn.ea], insn.Op1)
  THEN Done({}, deferred_flows, deferred_noflows, 0)
  ELSE LET target_va == branch_targets[insn.ea][insn.Op1].end_offset
           added == AddCrefs(<<fl_JF(insn.ea, target_va)>>)
       IN Done(added.crefs, deferred_flows, deferred_noflows, IF added.ok THEN 1 ELSE 0)

notify_emu_BR_IF(insn) ==
  LET flow == {fl_F(insn.ea, insn.ea + insn.size)}
  IN IF ~Has(branch_targets, insn.ea) THEN Done(flow, deferred_flows, deferred_noflows, 1)
     ELSE IF ~Has(branch_targets[insn.ea], insn.Op1)
     THEN Done(flow, deferred_flows, deferred_noflows, 0)
     ELSE LET target_va == branch_targets[insn.ea][insn.Op1].end_offset
              added == AddCrefs(<<fl_JF(insn.ea, target_va)>>)
          IN Done(flow \cup added.crefs, deferred_flows, deferred_noflows,
                  IF added.ok THEN 1 ELSE 0)

\* (mutant of notify_emu_IF: the jump goes to the end_offset, whatever the else_offset)
IfJumpsToEnd(insn) ==
  LET flow == {fl_F(insn.ea, insn.ea + insn.size)}
  IN IF ~Has(branch_targets, insn.ea) THEN Done(flow, deferred_flows, deferred_noflows, 1)
     ELSE LET added ==
                AddCrefs(Map(LAMBDA target_block : fl_JF(insn.ea, target_block.end_offset),
                             Values(insn, branch_targets[insn.ea])))
          IN Done(flow \cup added.crefs, deferred_flows, deferred_noflows,
                  IF added.ok THEN 1 ELSE 0)
notify_emu_IF(insn) ==
  LET flow == {fl_F(insn.ea, insn.ea + insn.size)}
  IN IF ~Has(branch_targets, insn.ea) THEN Done(flow, deferred_flows, deferred_noflows, 1)
     ELSE LET added ==
                AddCrefs(Map(LAMBDA target_block :
                               IF target_block.else_offset \notin {None, 0}
                               THEN fl_JF(insn.ea, target_block.else_offset)
                               ELSE fl_JF(insn.ea, target_block.end_offset),
                             Values(insn, branch_targets[insn.ea])))
          IN Done(flow \cup added.crefs, deferred_flows, deferred_noflows,
                  IF added.ok THEN 1 ELSE 0)

notify_emu_ELSE(insn) ==
  IF ~Has(branch_targets, insn.ea) THEN Done({}, deferred_flows, deferred_noflows, 1)
  ELSE LET added ==
             AddCrefs(Map(LAMBDA target_block : fl_JF(insn.ea, target_block.end_offset),
                          Values(insn, branch_targets[insn.ea])))
       IN Done(added.crefs, deferred_flows, deferred_noflows, IF added.ok THEN 1 ELSE 0)

\* (mutant of notify_emu_END: the END of the function flows to the next address)
FunctionEndFlows(insn) ==
  LET flows == AddCrefs(IF Has(deferred_flows, insn.ea)
                        THEN deferred_flows[insn.ea] ELSE <<>>)
  IN IF ~flows.ok THEN Done(flows.crefs, deferred_flows, deferred_noflows, 0)
     ELSE IF ~Has(branch_targets, insn.ea)
     THEN Done(flows.crefs, deferred_flows, deferred_noflows, 1)
     ELSE IF ~Has(branch_targets[insn.ea], BlockKey)
     THEN Done(flows.crefs, deferred_flows, deferred_noflows, 0)
     ELSE LET block == branch_targets[insn.ea][BlockKey]
              own == CASE block.type = "loop" -> {fl_JF(insn.ea, block.offset)}
                       [] block.type \in {"if", "block"} ->
                            IF insn.ea \notin deferred_noflows
                            THEN {fl_F(insn.ea, insn.ea + insn.size)}
                            ELSE {}
                       [] OTHER -> {fl_F(insn.ea, insn.ea + insn.size)}
          IN Done(flows.crefs \cup own, deferred_flows, deferred_noflows, 1)
\* (mutant of notify_emu_END: the deferred flows of the END are not added)
EndOwnFlowOnly(insn) ==
  IF ~Has(branch_targets, insn.ea) THEN Done({}, deferred_flows, deferred_noflows, 1)
  ELSE LET block == branch_targets[insn.ea][BlockKey]
       IN Done(IF block.type = "loop" THEN {fl_JF(insn.ea, block.offset)}
               ELSE IF block.type \in {"if", "block"} /\ insn.ea \notin deferred_noflows
               THEN {fl_F(insn.ea, insn.ea + insn.size)}
               ELSE {},
               deferred_flows, deferred_noflows, 1)
notify_emu_END(insn) ==
  LET flows == AddCrefs(IF Has(deferred_flows, insn.ea)
                        THEN deferred_flows[insn.ea] ELSE <<>>)
  IN IF ~flows.ok THEN Done(flows.crefs, deferred_flows, deferred_noflows, 0)
     ELSE IF ~Has(branch_targets, insn.ea)
     THEN Done(flows.crefs, deferred_flows, deferred_noflows, 1)
     ELSE IF ~Has(branch_targets[insn.ea], BlockKey)
     THEN Done(flows.crefs, deferred_flows, deferred_noflows, 0)
     ELSE LET block == branch_targets[insn.ea][BlockKey]
              own == CASE block.type = "loop" -> {fl_JF(insn.ea, block.offset)}
                       [] block.type \in {"if", "block"} ->
                            IF insn.ea \notin deferred_noflows
                            THEN {fl_F(insn.ea, insn.ea + insn.size)}
                            ELSE {}
                       [] OTHER -> {}
          IN Done(flows.crefs \cup own, deferred_flows, deferred_noflows, 1)

\* wasm.INSN_NO_FLOW in the feature flags of the opcode
NoFlow(itype) == itype \in {"return", "unreachable"}

\* ev_emu_insn, from the decoding of the next instruction on
ev_emu_insn(insn, next) ==
  IF insn.itype \in {"br", "br_if", "br_table"} /\ next.itype = "end"
  THEN CASE insn.itype = "br" -> notify_emu_BR_END(insn, next)
         [] insn.itype = "br_if" -> notify_emu_BR_IF_END(insn, next)
         [] insn.itype = "br_table" -> notify_emu_BR_TABLE_END(insn, next)
  ELSE IF insn.itype = "return" /\ next.itype = "end"
  THEN notify_emu_RETURN_END(insn, next)
  ELSE IF insn.itype = "unreachable" /\ next.itype = "end"
  THEN notify_emu_UNREACHABLE_END(insn, next)
  ELSE IF insn.itype = "br" /\ next.itype = "unreachable"
  THEN Done({}, deferred_flows, deferred_noflows, 1)
  ELSE IF NoFlow(insn.itype)
  THEN Done({}, deferred_flows, deferred_noflows, 1)
  ELSE IF insn.itype = "br" THEN notify_emu_BR(insn)
  ELSE IF insn.itype = "br_table"
  THEN Done({}, deferred_flows, deferred_noflows, 0)
  ELSE IF insn.itype = "br_if" THEN notify_emu_BR_IF(insn)
  ELSE IF insn.itype = "if" THEN notify_emu_IF(insn)
  ELSE IF insn.itype = "else" THEN notify_emu_ELSE(insn)
  ELSE IF insn.itype = "end" THEN notify_emu_END(insn)
  ELSE Done({fl_F(insn.ea, insn.ea + insn.size)}, deferred_flows, deferred_noflows, None)

\* the call of ev_emu_insn on the instruction at a site
Call(s) ==
  /\ pc = "idle"
  /\ LET r == ev_emu_insn(InsnT(s), NextInsnT(s))
     IN /\ deferred_flows' = r.flows
        /\ deferred_noflows' = r.noflows
        /\ emu' = [ea |-> SiteEa(s), crefs |-> r.crefs, ret |-> r.ret]
  /\ UNCHANGED <<file, pc, exc, tables, branch_targets, locals, named>>

\* the host emulates the instruction at a site of the loaded module
Emu(s) == Call(s) /\ UNCHANGED history

Emulate == \E s \in Sites : Emu(s)

Next == Load \/ Emulate
Spec == Init /\ [][Next]_vars

\* ------------------------------------------------- loads on one object
\* the buffers of the loads: a function with a Br at the end of a block, one whose
\* resolution fails, one with an If, an Else and a BrTable, and modules that lack
\* the data section (with a Return at the end of its function), the type section or
\* the code section
ReloadFiles ==
  {Module(SectionIds, <<<<Block, Br(0), End, End>>>>),
   Module(SectionIds, <<<<Br(0), End>>>>),
   Module(SectionIds, <<<<If, Else, BrTable(<<0>>, 0), End, End>>>>),
   Module(SectionIds \ {"data"}, <<<<Return, End>>>>),
   Module(SectionIds \ {"type"}, <<<<Nop, End>>>>),
   Module(SectionIds \ {"code"}, <<>>)}

InitReload == file \in ReloadFiles /\ Construct

\* the database holds another module, or the same one again, and the host calls
\* ev_newfile or ev_oldfile on the processor object it already has
Reload ==
  /\ pc = "idle"
  /\ loads < MaxLoads
  /\ \E f \in ReloadFiles :
       /\ file' = f
       /\ hist' = IF f = file THEN hist ELSE EmptyMap
  /\ pc' = "init"
  /\ prev' = [file |-> file, types |-> types, globals |-> globals,
              functions |-> functions, data |-> data,
              branch_targets |-> branch_targets]
  /\ consulted' = {}
  /\ emu' = NoEmu
  /\ UNCHANGED <<exc, tables, branch_targets, deferred, locals, named, loads>>

\* the keys of the deferred maps
DeferredKeys == DOMAIN deferred_flows \cup deferred_noflows

\* the host emulates an instruction; the kernel reaches an instruction that follows
\* another one in its body after it analysed that one, at least once for this
\* buffer (the order ev_emu_insn assumes, lines 932-937)
EmuInOrder(s) ==
  /\ s[2] > 1 => Has(hist, SiteEa(<<s[1], s[2] - 1>>))
  /\ Call(s)
  /\ hist' = IF Has(hist, SiteEa(s)) THEN hist
             ELSE Update(hist, SiteEa(s) :> emu'.crefs)
  /\ consulted' = IF SiteInsn(s).op = "end" /\ SiteEa(s) \in DeferredKeys
                  THEN consulted \cup {SiteEa(s)}
                  ELSE consulted
  /\ UNCHANGED <<loads, prev>>

EmulateInOrder == \E s \in Sites : EmuInOrder(s)

NextReload == Load \/ EmulateInOrder \/ Reload
SpecReload == InitReload /\ [][NextReload]_vars

\* ------------------------------------------------------------ properties
BranchOps == {"br", "br_if", "br_table"}
SiteOp(s) == SiteInsn(s).op
\* the addresses of the instructions of body j
BodyEas(j) == {SiteEa(<<j, i>>) : i \in 1 .. Len(file.bodies[j])}
\* the maps that hold entries of body j: the one the pass over it is building,
\* the one _compute_branch_targets accumulates, the one of the processor
MapsOf(j) ==
  (IF pc \in {"pass", "break"} /\ k = j THEN {fn_targets} ELSE {})
    \cup {acc, branch_targets}
\* the scopes of body j that, by the entries of map M, enclose address a: opened
\* before a and not closed before a
OpenAt(M, j, a) ==
  {o \in BodyEas(j) \cap DOMAIN M :
     /\ Has(M[o], BlockKey)
     /\ M[o][BlockKey].type \in {"block", "loop", "if"}
     /\ M[o][BlockKey].offset = o
     /\ o < a
     /\ M[o][BlockKey].end_offset = None \/ M[o][BlockKey].end_offset > a}

\* C1: in every map that holds the entry of a Br or BrIf of relative depth d, the
\* entry has the one key d and names a scope that encloses the branch, with
\* exactly d enclosing scopes opened after it: the d-th from the top of the scope
\* stack as it stood at the branch, during the rest of the pass and after it.
C1_BranchResolvesFromTop ==
  \A s \in Sites :
    SiteOp(s) \in {"br", "br_if"} =>
      \A M \in MapsOf(s[1]) :
        Has(M, SiteEa(s)) =>
          LET a == SiteEa(s)
              d == SiteInsn(s).imm[1]
              open == OpenAt(M, s[1], a)
          IN /\ DOMAIN M[a] = {d}
             /\ M[a][d].offset \in open
             /\ Cardinality({o \in open : o > M[a][d].offset}) = d

\* C1 witness: after a load, a Br or BrIf of depth 1 is resolved to the outer of two
\* enclosing scopes, and that scope was closed by a later instruction
C1_Witness ==
  /\ pc = "idle"
  /\ \E s \in Sites :
       /\ SiteOp(s) \in {"br", "br_if"}
       /\ SiteInsn(s).imm[1] = 1
       /\ Has(branch_targets, SiteEa(s))
       /\ branch_targets[SiteEa(s)][1].end_offset > SiteEa(s)
       /\ Cardinality(OpenAt(branch_targets, s[1], SiteEa(s))) = 2

\* the pass is at a branch one of whose relative depths is not below the stack size
BadDepthAt ==
  /\ Stepping
  /\ bc.op \in BranchOps
  /\ \E n \in 1 .. Len(bc.imm) : bc.imm[n] >= Len(block_stack)

\* C2: a Br, BrIf or BrTable with a relative depth that is not below the stack size
\* at it makes the pass raise IndexError, and no entry for its address reaches the
\* accumulated map or the map of the processor, then or later.
C2_BadDepthRaises ==
  [][/\ BadDepthAt =>
          /\ pc' = "raised"
          /\ exc' = "IndexError"
          /\ ~Has(acc', p)
          /\ ~Has(branch_targets', p)
     /\ pc \in {"raised", "idle"} => branch_targets' = branch_targets]_vars

\* C2 witness: the pass raised at a branch whose depth equals the size of a stack
\* that is not empty
C2_Witness ==
  /\ pc = "raised"
  /\ exc = "IndexError"
  /\ Len(block_stack) > 0
  /\ \E n \in 1 .. Len(bc.imm) : bc.imm[n] = Len(block_stack)

\* the instruction at site s is op1 and the next instruction of its body is op2
Pair(s, op1, op2) ==
  /\ SiteOp(s) = op1
  /\ s[2] < Len(file.bodies[s[1]])
  /\ SiteOp(<<s[1], s[2] + 1>>) = op2
\* the address after the instruction at site s
After(s) == SiteEa(s) + InsnLen(SiteInsn(s))
\* the block the map of the processor resolves the Br or BrIf at site s to
Target(s) == branch_targets[SiteEa(s)][SiteInsn(s).imm[1]]
Resolved(s) ==
  /\ Has(branch_targets, SiteEa(s))
  /\ Has(branch_targets[SiteEa(s)], SiteInsn(s).imm[1])
\* a body none of whose instructions opens a scope or branches
Plain(j) ==
  \A i \in 1 .. Len(file.bodies[j]) :
    SiteOp(<<j, i>>) \in {"nop", "end", "return", "unreachable"}
\* the first End of body j is at position i
FirstEnd(j, i) ==
  /\ SiteOp(<<j, i>>) = "end"
  /\ \A h \in 1 .. i - 1 : SiteOp(<<j, h>>) # "end"
\* the block the End at address e closes, by the map of the processor
Closes(e, kinds) ==
  /\ Has(branch_targets, e)
  /\ Has(branch_targets[e], BlockKey)
  /\ branch_targets[e][BlockKey].type \in kinds

\* C3 (as claimed): once the load is over, the function-terminating End of every
\* body that has no scope and no branch, so that its own pass cannot fail, has its
\* entry in the map of the processor, whether the pass over another body failed.
C3_FailureIsolated ==
  pc = "idle" =>
    \A j \in 1 .. Len(file.bodies) :
      Plain(j) =>
        \A i \in 1 .. Len(file.bodies[j]) :
          FirstEnd(j, i) => Has(branch_targets, SiteEa(<<j, i>>))

\* C4 (as claimed): a load of a module that lacks exactly one section does not end
\* with SectionNotFoundError, it runs to its last step.
C4_MissingSectionLoads ==
  (pc = "idle" /\ Cardinality(SectionIds \ file.secs) = 1) =>
    exc # "SectionNotFoundError"

\* C5: for a Br immediately followed by End, the emulation of the Br adds the
\* fallthrough Br -> End and nothing else; the emulation of the End, once the Br left
\* its deferred flow, adds no fallthrough End -> next and, when the block the Br
\* resolves to has an end_offset, adds the jump End -> end_offset.
C5_BrEndDeferred ==
  \A s \in Sites :
    Pair(s, "br", "end") =>
      LET a == SiteEa(s)
          e == After(s)
      IN /\ emu.ea = a => emu.crefs = {fl_F(a, e)}
         /\ (emu.ea = e /\ Has(deferred_flows, e)) =>
              /\ fl_F(e, e + InsnLen(End)) \notin emu.crefs
              /\ (Resolved(s) /\ Target(s).end_offset # None) =>
                   fl_JF(e, Target(s).end_offset) \in emu.crefs

\* C5 witness: the End after an emulated Br closes a Block and was emulated: it
\* added the deferred jump
C5_Witness ==
  \E s \in Sites :
    /\ Pair(s, "br", "end")
    /\ emu.ea = After(s)
    /\ Has(deferred_flows, After(s))
    /\ Closes(After(s), {"block"})
    /\ Resolved(s)
    /\ emu.crefs = {fl_JF(After(s), Target(s).end_offset)}

\* the flow of the End at address e that does not come from a deferred edge
OwnFlow(e) ==
  IF Closes(e, {"loop"}) THEN {fl_JF(e, branch_targets[e][BlockKey].offset)}
  ELSE IF Closes(e, {"if", "block"}) THEN {fl_F(e, e + InsnLen(End))}
  ELSE {}

\* C6: for a BrIf immediately followed by End, the emulation of the BrIf adds the
\* fallthrough BrIf -> End and nothing else, and the End is never marked no-flow;
\* the emulation of the End, once the BrIf left its deferred flow to an end_offset
\* that is set, adds the jump End -> end_offset and the flow the End has of its own.
C6_BrIfEndDeferred ==
  \A s \in Sites :
    Pair(s, "br_if", "end") =>
      LET a == SiteEa(s)
          e == After(s)
      IN /\ emu.ea = a => emu.crefs = {fl_F(a, e)}
         /\ e \notin deferred_noflows
         /\ (/\ emu.ea = e
             /\ Has(deferred_flows, e)
             /\ Resolved(s)
             /\ Target(s).end_offset # None) =>
              emu.crefs = {fl_JF(e, Target(s).end_offset)} \cup OwnFlow(e)

\* C6 witness: the End after an emulated BrIf closes a Block and was emulated: it
\* added the deferred jump and its own fallthrough
C6_Witness ==
  \E s \in Sites :
    /\ Pair(s, "br_if", "end")
    /\ emu.ea = After(s)
    /\ Has(deferred_flows, After(s))
    /\ Closes(After(s), {"block"})
    /\ Resolved(s)
    /\ fl_JF(After(s), Target(s).end_offset) \in emu.crefs
    /\ fl_F(After(s), After(s) + InsnLen(End)) \in emu.crefs

\* C7 (as claimed): the emulation of a BrTable immediately followed by End adds,
\* from the address of the BrTable, the jumps to the end_offset of the blocks it
\* resolves to, and leaves the End marked no-flow.
C7_BrTableEndNoFlow ==
  \A s \in Sites :
    (/\ Pair(s, "br_table", "end")
     /\ Has(branch_targets, SiteEa(s))
     /\ emu.ea = SiteEa(s)
     /\ emu.ret = 1) =>
      /\ After(s) \in deferred_noflows
      /\ emu.crefs =
           {fl_JF(SiteEa(s), branch_targets[SiteEa(s)][d].end_offset) :
              d \in DOMAIN branch_targets[SiteEa(s)]}

\* C8 (as claimed): the emulation of an End that closes a Loop adds the jump to the
\* offset of the Loop and no fallthrough, whatever the deferred maps hold.
C8_LoopEndBackEdge ==
  \A s \in Sites :
    (SiteOp(s) = "end" /\ Closes(SiteEa(s), {"loop"}) /\ emu.ea = SiteEa(s)) =>
      /\ fl_JF(SiteEa(s), branch_targets[SiteEa(s)][BlockKey].offset) \in emu.crefs
      /\ fl_F(SiteEa(s), After(s)) \notin emu.crefs

\* C9 (as claimed): the emulation of an End that closes an If or a Block, right
\* after that of the instruction before it, adds the fallthrough End -> next if and
\* only if that instruction is not a Br, BrTable, Return or Unreachable.
C9_EndFallthroughUnlessMarked ==
  [][\A s \in Sites :
       (/\ Pair(s, SiteOp(s), "end")
        /\ Closes(After(s), {"if", "block"})
        /\ emu.ea = SiteEa(s)
        /\ emu'.ea = After(s)) =>
         (fl_F(After(s), After(s) + InsnLen(End)) \in emu'.crefs
            <=> SiteOp(s) \notin {"br", "br_table", "return", "unreachable"})]_vars

\* C10 (as claimed): the emulation of a Br immediately followed by Unreachable,
\* resolved to a block that has an end_offset, adds the jump to that end_offset and
\* nothing else.
C10_BrUnreachableJumps ==
  \A s \in Sites :
    (/\ Pair(s, "br", "unreachable")
     /\ Resolved(s)
     /\ Target(s).end_offset # None
     /\ emu.ea = SiteEa(s)) =>
      emu.crefs = {fl_JF(SiteEa(s), Target(s).end_offset)}

\* the number of instructions of the given kinds among the first n of a body
CountOps(code, n, ops) == Cardinality({i \in 1 .. n : code[i].op \in ops})

\* C11: a pass step at an End with a non-empty scope stack pops the top block and
\* nothing else, sets the end_offset of that block to the address of the End plus
\* its length, records that block as the 'block' entry of the address of the End,
\* and leaves every field of every other block as it was, in the block table and
\* in the entries that refer to the blocks.
C11_EndPopsTop ==
  [][(Stepping /\ bc.op = "end" /\ block_stack # <<>>) =>
       LET top == Head(block_stack)
       IN /\ block_stack' = Tail(block_stack)
          /\ Len(blocks') = Len(blocks)
          /\ blocks'[top + 1] = [blocks[top + 1] EXCEPT !.end_offset = p + InsnLen(bc)]
          /\ \A i \in DOMAIN blocks : i # top + 1 => blocks'[i] = blocks[i]
          /\ DOMAIN fn_targets' = DOMAIN fn_targets \cup {p}
          /\ fn_targets'[p] = (BlockKey :> blocks'[top + 1])
          /\ \A a \in DOMAIN fn_targets :
               /\ DOMAIN fn_targets'[a] = DOMAIN fn_targets[a]
               /\ \A key \in DOMAIN fn_targets[a] :
                    fn_targets'[a][key] =
                      IF fn_targets[a][key].index = top
                      THEN blocks'[top + 1]
                      ELSE fn_targets[a][key]]_vars

\* C11 witness: the pass is just after an End that closed the inner of two open
\* blocks: the entry of the End has the end_offset, the outer block has none
C11_Witness ==
  /\ pc = "pass"
  /\ pi > 1
  /\ Code[pi - 1].op = "end"
  /\ block_stack # <<>>
  /\ Has(fn_targets, p - 1)
  /\ fn_targets[p - 1][BlockKey].end_offset = p
  /\ blocks[Head(block_stack) + 1].end_offset = None

\* C12: a pass step at an End with an empty scope stack records, for the address
\* of the End, a block of type function whose offset is the start of the function,
\* whose end_offset is the address of the End itself and whose depth is 0, adds
\* no other entry and ends the pass; the step after it merges the entries of the
\* pass as they are, none of them beyond that End, and no instruction is stepped.
C12_FunctionEndStops ==
  [][/\ (Stepping /\ bc.op = "end" /\ block_stack = <<>>) =>
          /\ pc' = "break"
          /\ DOMAIN fn_targets' = DOMAIN fn_targets \cup {p}
          /\ \A a \in DOMAIN fn_targets : fn_targets'[a] = fn_targets[a]
          /\ DOMAIN fn_targets'[p] = {BlockKey}
          /\ fn_targets'[p][BlockKey].type = "function"
          /\ fn_targets'[p][BlockKey].offset = BodyOffset(file.bodies, k)
          /\ fn_targets'[p][BlockKey].end_offset = p
          /\ fn_targets'[p][BlockKey].depth = 0
     /\ pc = "break" =>
          /\ acc' = Update(acc, fn_targets)
          /\ k' = k + 1
          /\ \A a \in DOMAIN fn_targets : a <= p]_vars

\* C12 witness: the pass stopped at the End of the function with instructions,
\* a Br among them, left in the body
C12_Witness ==
  /\ pc = "break"
  /\ pi < Len(Code)
  /\ \E i \in pi + 1 .. Len(Code) : Code[i].op = "br"
  /\ fn_targets[p][BlockKey].type = "function"

\* C13: a pass starts with an empty scope stack and an empty block table; when it
\* stops at the End of the function, the scope stack is empty, the Block, Loop and
\* If instructions stepped are one fewer than the End instructions stepped, and
\* every block created, in the table and in the entries, has an end_offset.
C13_BalancedAtFunctionEnd ==
  /\ (pc = "pass" /\ pi = 1) => (block_stack = <<>> /\ blocks = <<>>)
  /\ pc = "break" =>
       /\ block_stack = <<>>
       /\ CountOps(Code, pi, {"block", "loop", "if"}) = CountOps(Code, pi, {"end"}) - 1
       /\ Len(blocks) = CountOps(Code, pi, {"block", "loop", "if"})
       /\ \A i \in DOMAIN blocks : blocks[i].end_offset # None
       /\ \A a \in DOMAIN fn_targets :
            \A key \in DOMAIN fn_targets[a] : fn_targets[a][key].end_offset # None

\* C13 witness: a pass that created two blocks stopped at the End of the function
C13_Witness ==
  /\ pc = "break"
  /\ Len(blocks) >= 2
  /\ CountOps(Code, pi, {"end"}) >= 3

\* the module whose code section holds the one body b, loaded
Loaded(b) == file = Module(SectionIds, <<b>>) /\ pc = "idle"
\* the address of the i-th instruction of the first body
Ea(i) == SiteEa(<<1, i>>)

\* C14 (as claimed): in the body [Loop, Br(0), End] the emulation of the Br adds
\* the fallthrough Br -> End only, and the emulation of the End after it adds the
\* jump to the offset of the Loop only, the End not being marked no-flow.
C14_LoopBrEnd ==
  Loaded(ScenarioB) =>
    /\ emu.ea = Ea(2) => emu.crefs = {fl_F(Ea(2), Ea(3))}
    /\ (emu.ea = Ea(3) /\ Has(deferred_flows, Ea(3))) =>
         /\ emu.crefs = {fl_JF(Ea(3), Ea(1))}
         /\ Ea(3) \notin deferred_noflows

\* C15 (as claimed): in the body [Block, I32Const(0), BrIf(0), End] the crefs any
\* emulation adds are among three: the fallthrough of the Block, and the
\* fallthrough and the jump to the end of the Block from the BrIf.
C15_ScenarioThreeEdges ==
  Loaded(ScenarioA) =>
    emu.crefs \subseteq {fl_F(Ea(1), Ea(2)), fl_F(Ea(3), Ea(4)),
                         fl_JF(Ea(3), Ea(4) + InsnLen(End))}

\* C15 (amended): in the body [Block, I32Const(0), BrIf(0), End] the End closes
\* the Block, the BrIf resolves to that Block, the End is never marked no-flow,
\* and the emulations add five crefs: the fallthrough of the Block, of the
\* I32Const and of the BrIf, and from the End, once the BrIf was emulated, the jump
\* to the end of the Block and the fallthrough of the End.
C15_ScenarioFiveEdges ==
  Loaded(ScenarioA) =>
    /\ Closes(Ea(4), {"block"})
    /\ branch_targets[Ea(4)][BlockKey].offset = Ea(1)
    /\ Resolved(<<1, 3>>)
    /\ Target(<<1, 3>>) = branch_targets[Ea(4)][BlockKey]
    /\ Ea(4) \notin deferred_noflows
    /\ emu.ea = Ea(1) => emu.crefs = {fl_F(Ea(1), Ea(2))}
    /\ emu.ea = Ea(2) => emu.crefs = {fl_F(Ea(2), Ea(3))}
    /\ emu.ea = Ea(3) => emu.crefs = {fl_F(Ea(3), Ea(4))}
    /\ (emu.ea = Ea(4) /\ Has(deferred_flows, Ea(4))) =>
         emu.crefs = {fl_JF(Ea(4), Ea(4) + InsnLen(End)),
                      fl_F(Ea(4), Ea(4) + InsnLen(End))}
    /\ (emu.ea = Ea(4) /\ ~Has(deferred_flows, Ea(4))) =>
         emu.crefs = {fl_F(Ea(4), Ea(4) + InsnLen(End))}

\* C15 witness: the End of the scenario was emulated after the BrIf and added
\* the deferred jump and its fallthrough
C15_Witness ==
  /\ Loaded(ScenarioA)
  /\ emu.ea = Ea(4)
  /\ Has(deferred_flows, Ea(4))
  /\ Cardinality(emu.crefs) = 2

\* C16: the emulation of an End that closes the function adds no cref; in the
\* body [Unreachable, End] the End closes the function and no emulation adds a
\* cref, the End being marked no-flow or not.
C16_FunctionEndNoEdge ==
  /\ \A s \in Sites :
       (SiteOp(s) = "end" /\ Closes(SiteEa(s), {"function"}) /\ emu.ea = SiteEa(s)) =>
         emu.crefs = {}
  /\ Loaded(ScenarioC) =>
       /\ Closes(Ea(2), {"function"})
       /\ emu.crefs = {}

\* C16 witness: in the body [Unreachable, End] the End was emulated after the
\* Unreachable, which had marked it no-flow
C16_Witness ==
  /\ Loaded(ScenarioC)
  /\ emu.ea = Ea(2)
  /\ emu.ret = 1
  /\ deferred_noflows = {Ea(2)}

\* the function-kind imports that take a function index in the load
FuncImports == IF HasSection("import") THEN OfKind(file.imports, "function") ELSE <<>>
\* the fields of the function-kind exports of a function index
ExportFields(index) ==
  {file.exports[n].field :
     n \in {h \in DOMAIN file.exports :
              file.exports[h].kind = "function" /\ file.exports[h].index = index}}

\* C17: once the load has parsed the function table, the n function imports have
\* the indices 0 .. n-1 in the order of the import section, the m bodies of the
\* code section have the indices n .. n+m-1 in the order of the code section, and
\* the table has no other index; a defined function whose index is that of a
\* function-kind export has the field of such an export as its name and is marked
\* exported, every other defined function has the placeholder name of its index
\* and is not.
C17_FunctionIndexSpace ==
  (pc # "init" /\ _parse_functions.ok) =>
    LET n == Len(FuncImports)
        m == Len(file.bodies)
    IN /\ DOMAIN functions = 0 .. n + m - 1
       /\ \A i \in 0 .. n - 1 :
            /\ functions[i].index = i
            /\ functions[i].imported
            /\ functions[i].name = <<FuncImports[i + 1].field>>
       /\ \A j \in 1 .. m :
            LET f == functions[n + j - 1]
            IN /\ f.index = n + j - 1
               /\ ~f.imported
               /\ f.offset = BodyOffset(file.bodies, j)
               /\ IF ExportFields(f.index) # {}
                  THEN f.exported /\ \E field \in ExportFields(f.index) : f.name = <<field>>
                  ELSE ~f.exported /\ f.name = <<"$func", f.index>>

\* C17 witness: two function imports and one body, whose index 2 is exported as
\* main: the function of index 2 is the defined one, named main
C17_Witness ==
  /\ pc = "idle"
  /\ Len(FuncImports) = 2
  /\ Len(file.bodies) = 1
  /\ file.exports = <<Export("function", 2, "main")>>
  /\ DOMAIN functions = 0 .. 2
  /\ functions[2].name = <<"main">>
  /\ functions[2].exported
  /\ functions[0].imported /\ functions[1].imported

\* what a table holds after the load of the buffer on a new processor object
Fresh(parse, initial) == IF parse.ok THEN parse.val ELSE initial

\* C18 (as claimed): once a load is over, whatever loads came before it on the
\* object, the tables are those the buffer of this load gives a new object: a
\* table whose section the buffer lacks is empty, the branch targets of a load that
\* failed are empty, and the deferred maps are empty until an instruction is
\* emulated.
C18_TablesOfLastLoad ==
  pc = "idle" =>
    /\ types = Fresh(_parse_types, <<>>)
    /\ globals = Fresh(_parse_globals, EmptyMap)
    /\ functions = Fresh(_parse_functions, EmptyMap)
    /\ data = Fresh(_parse_data, EmptyMap)
    /\ exc # "none" => branch_targets = EmptyMap
    /\ emu = NoEmu => (deferred_flows = EmptyMap /\ deferred_noflows = {})

\* the step is the emulation of the instruction at site s
Emulated(s) == pc = "idle" /\ pc' = "idle" /\ emu'.ea = SiteEa(s)

\* C19 (as claimed): a load of the buffer the load before it had leaves the same
\* tables and branch targets, and the emulation of an instruction that was
\* emulated before for this buffer adds no cref its first emulation did not add.
C19_SameBufferSameEdges ==
  [][/\ (pc' = "idle" /\ loads > 1 /\ prev.file = file) =>
          /\ types' = prev.types
          /\ globals' = prev.globals
          /\ functions' = prev.functions
          /\ data' = prev.data
          /\ branch_targets' = prev.branch_targets
     /\ \A s \in Sites :
          (Emulated(s) /\ Has(hist, SiteEa(s))) => emu'.crefs \subseteq hist[SiteEa(s)]]_vars

\* the instructions that leave an entry for the End after them
MarkerOps == {"br", "br_if", "return", "unreachable"}

\* C20 (as claimed): the emulation of an End consults the deferred entry of its
\* address at most once: an End is not emulated with an entry in place after an
\* emulation of it that found one.
C20_ConsultedOnce ==
  [][\A s \in Sites :
       (Emulated(s) /\ SiteOp(s) = "end" /\ SiteEa(s) \in DeferredKeys) =>
         SiteEa(s) \notin consulted]_vars

\* C20 (amended): an address enters the deferred maps only by the emulation of a
\* Br, BrIf, Return or Unreachable whose next instruction is an End at that
\* address; no emulation removes an entry, only the end of a load that completes
\* empties the maps; and every emulation of the End at that address consults the
\* entry: it adds the deferred flows, and no fallthrough if the End is marked.
C20_DeferredEntries ==
  [][/\ \A a \in DeferredKeys' \ DeferredKeys :
          \E s \in Sites :
            /\ Emulated(s)
            /\ SiteOp(s) \in MarkerOps
            /\ Pair(s, SiteOp(s), "end")
            /\ After(s) = a
     /\ (DeferredKeys \ DeferredKeys' # {}) => (pc = "finish" /\ DeferredKeys' = {})
     /\ \A s \in Sites :
          (Emulated(s) /\ SiteOp(s) = "end") =>
            /\ deferred_flows' = deferred_flows
            /\ deferred_noflows' = deferred_noflows
            /\ \/ emu'.ret = 0
               \/ ~Has(deferred_flows, SiteEa(s))
               \/ \A n \in DOMAIN deferred_flows[SiteEa(s)] :
                    deferred_flows[SiteEa(s)][n] \in emu'.crefs
            /\ SiteEa(s) \in deferred_noflows =>
                 fl_F(SiteEa(s), After(s)) \notin emu'.crefs]_vars

\* C20 witness: the End after a Br was emulated with its entries in place, after
\* an emulation that had consulted them, and added the deferred jump again
C20_Witness ==
  \E s \in Sites :
    /\ Pair(s, "br", "end")
    /\ emu.ea = After(s)
    /\ After(s) \in consulted
    /\ Has(deferred_flows, After(s))
    /\ After(s) \in deferred_noflows
    /\ emu.crefs = {deferred_flows[After(s)][1]}
    /\ hist[After(s)] = emu.crefs

\* the value ev_newfile and ev_oldfile return after load returned
LoadReturned == 0
\* the value the wrapper of no_exceptions returns after the call raised
Swallowed == 0
\* the value the host got from the load event that is over
EventResult == IF exc = "none" THEN LoadReturned ELSE Swallowed

\* C21 (as claimed): a load event that ended with an exception gives the host a
\* value other than the one a load event that succeeded gives it.
C21_FailureTold ==
  (pc = "idle" /\ exc # "none") => EventResult # LoadReturned

\* C23 (as claimed): a pass step at an Else with an If open on the scope stack sets
\* the else_offset of the nearest one to the address after the Else, and of no
\* other block, and records that block as the 'block' entry of the address of the
\* Else; a pass step at an Else with no If open ends the pass with an error.
C23_ElseOwnedOrError ==
  [][(Stepping /\ bc.op = "else") =>
       LET ifs == OpenIfs(blocks, block_stack)
       IN IF ifs = <<>>
          THEN pc' = "raised"
          ELSE /\ blocks' = [blocks EXCEPT ![Head(ifs) + 1].else_offset = p + InsnLen(bc)]
               /\ Has(fn_targets', p)
               /\ fn_targets'[p] = (BlockKey :> blocks'[Head(ifs) + 1])
               /\ pc' = "pass"]_vars

\* C24 (as claimed): the emulation of a BrTable that has an entry in the map of
\* the processor, every block of which has an end_offset, and that is not
\* immediately followed by End returns 1 and adds, from the address of the
\* BrTable, the jumps to those end_offsets and nothing else.
C24_BrTableJumps ==
  \A s \in Sites :
    (/\ SiteOp(s) = "br_table"
     /\ ~Pair(s, "br_table", "end")
     /\ Has(branch_targets, SiteEa(s))
     /\ \A d \in DOMAIN branch_targets[SiteEa(s)] :
          branch_targets[SiteEa(s)][d].end_offset # None
     /\ emu.ea = SiteEa(s)) =>
      /\ emu.ret = 1
      /\ emu.crefs =
           {fl_JF(SiteEa(s), branch_targets[SiteEa(s)][d].end_offset) :
              d \in DOMAIN branch_targets[SiteEa(s)]}

\* C25 (as claimed): after the load of a module that has a global section and no
\* import section, the globals table holds the defined global at index 0.
C25_GlobalsWithoutImports ==
  (pc = "idle" /\ HasSection("global") /\ ~HasSection("import")) =>
    /\ DOMAIN globals = {0}
    /\ globals[0].index = 0

\* C22 (as claimed): after the load, the entry of a BrTable has one key per
\* distinct relative depth among its targets and its default; the block under key
\* d encloses the BrTable with exactly d enclosing scopes opened after it; and the
\* marking of that block as the target of a branch table holds d.
C22_BrTableDepthsKept ==
  pc = "idle" =>
    \A s \in Sites :
      (SiteOp(s) = "br_table" /\ Has(branch_targets, SiteEa(s))) =>
        LET a == SiteEa(s)
            imm == SiteInsn(s).imm
            open == OpenAt(branch_targets, s[1], a)
        IN /\ DOMAIN branch_targets[a] = {imm[n] : n \in DOMAIN imm}
           /\ \A d \in DOMAIN branch_targets[a] :
                /\ branch_targets[a][d].offset \in open
                /\ Cardinality({o \in open : o > branch_targets[a][d].offset}) = d
                /\ branch_targets[a][d].br_table_target = d

\* C26 (as claimed): whenever the End after a Br, BrIf, Return or Unreachable is
\* emulated, before or after that instruction, it adds what it adds when it is
\* emulated after it: no fallthrough after a Br, a Return or an Unreachable, and
\* after a Br or a BrIf the jump to the end_offset of the block the branch
\* resolves to.
C26_OrderIndependent ==
  \A s \in Sites :
    (/\ SiteOp(s) \in MarkerOps
     /\ Pair(s, SiteOp(s), "end")
     /\ Closes(After(s), {"if", "block"})
     /\ emu.ea = After(s)) =>
      /\ SiteOp(s) \in {"br", "return", "unreachable"} =>
           fl_F(After(s), After(s) + InsnLen(End)) \notin emu.crefs
      /\ (SiteOp(s) \in {"br", "br_if"} /\ Resolved(s) /\ Target(s).end_offset # None) =>
           fl_JF(After(s), Target(s).end_offset) \in emu.crefs

\* C27 (as claimed): the emulation of an Unreachable immediately followed by End
\* marks the End no-flow, adds the fallthrough into the End and nothing else, and
\* returns 1.
C27_UnreachableEnd ==
  \A s \in Sites :
    (Pair(s, "unreachable", "end") /\ emu.ea = SiteEa(s)) =>
      /\ After(s) \in deferred_noflows
      /\ emu.crefs = {fl_F(SiteEa(s), After(s))}
      /\ emu.ret = 1

\* the block of the scope-opening instruction or the Else at site s
BlockOf(s) == branch_targets[SiteEa(s)][BlockKey]
\* where the If at site s jumps: past the Else recorded for its block, or to the
\* end of the block
IfTarget(s) ==
  IF BlockOf(s).else_offset # None THEN BlockOf(s).else_offset ELSE BlockOf(s).end_offset

\* C28: the emulation of an If whose block has an else_offset or an end_offset
\* adds the fallthrough to the next instruction and one jump, to the else_offset,
\* which is the address after an Else of the body recorded for that block, when
\* it is set, and to the end_offset otherwise; the emulation of an Else recorded
\* for an If block that has an end_offset adds the jump to that end_offset and
\* nothing else; both return 1.
C28_IfElseEdges ==
  \A s \in Sites :
    (emu.ea = SiteEa(s) /\ Has(branch_targets, SiteEa(s))) =>
      /\ (SiteOp(s) = "if" /\ IfTarget(s) # None) =>
           /\ emu.crefs = {fl_F(SiteEa(s), After(s)), fl_JF(SiteEa(s), IfTarget(s))}
           /\ emu.ret = 1
           /\ BlockOf(s).else_offset # None =>
                \E t \in Sites :
                  /\ t[1] = s[1]
                  /\ SiteOp(t) = "else"
                  /\ After(t) = BlockOf(s).else_offset
                  /\ Has(branch_targets, SiteEa(t))
                  /\ BlockOf(t).index = BlockOf(s).index
      /\ (SiteOp(s) = "else" /\ BlockOf(s).end_offset # None) =>
           /\ BlockOf(s).type = "if"
           /\ BlockOf(s).else_offset = After(s)
           /\ emu.crefs = {fl_JF(SiteEa(s), BlockOf(s).end_offset)}
           /\ emu.ret = 1

\* C28 witness: an If with an Else and an End was emulated: it added its
\* fallthrough and the jump past the Else, not the jump to its end
C28_Witness ==
  \E s \in Sites :
    /\ SiteOp(s) = "if"
    /\ emu.ea = SiteEa(s)
    /\ Has(branch_targets, SiteEa(s))
    /\ BlockOf(s).else_offset # None
    /\ BlockOf(s).end_offset # None
    /\ BlockOf(s).end_offset # BlockOf(s).else_offset
    /\ emu.crefs = {fl_F(SiteEa(s), After(s)), fl_JF(SiteEa(s), BlockOf(s).else_offset)}

\* C29: the emulation of a Br that is not immediately followed by End or
\* Unreachable, resolved to a block that has an end_offset, adds the jump from the
\* Br to that end_offset and nothing else; that of a BrIf that is not immediately
\* followed by End, resolved likewise, adds the fallthrough to the next
\* instruction and the jump to that end_offset and nothing else; both return 1,
\* whatever the type of the block, a Loop included.
C29_BranchJumpsToEnd ==
  \A s \in Sites :
    (/\ SiteOp(s) \in {"br", "br_if"}
     /\ ~Pair(s, SiteOp(s), "end")
     /\ emu.ea = SiteEa(s)
     /\ Resolved(s)
     /\ Target(s).end_offset # None) =>
      /\ (SiteOp(s) = "br" /\ ~Pair(s, "br", "unreachable")) =>
           /\ emu.crefs = {fl_JF(SiteEa(s), Target(s).end_offset)}
           /\ emu.ret = 1
      /\ SiteOp(s) = "br_if" =>
           /\ emu.crefs = {fl_F(SiteEa(s), After(s)),
                           fl_JF(SiteEa(s), Target(s).end_offset)}
           /\ emu.ret = 1

\* C29 witness: a Br followed by a Nop and resolved to a Loop that an End closes
\* was emulated: it added the jump to the end of the Loop, which is not its start
C29_Witness ==
  \E s \in Sites :
    /\ Pair(s, "br", "nop")
    /\ emu.ea = SiteEa(s)
    /\ Resolved(s)
    /\ Target(s).type = "loop"
    /\ Target(s).end_offset # None
    /\ Target(s).end_offset > SiteEa(s)
    /\ emu.crefs = {fl_JF(SiteEa(s), Target(s).end_offset)}

\* the End at which the pass over body j stopped, by the map of the processor
FunctionEnds(j) == {e \in BodyEas(j) : Closes(e, {"function"})}
\* the crefs of the last emulation go nowhere but into the function that ends at e
Within(j, e) ==
  \A cref \in emu.crefs :
    /\ cref[2] # None
    /\ BodyOffset(file.bodies, j) <= cref[2]
    /\ cref[2] <= e

\* C30 (as claimed): the crefs the emulation of any instruction of a body adds,
\* when the pass over the body stopped at the End of the function, have a target
\* from the start of the function to the address of that End.
C30_EdgesInAnyInstruction ==
  \A s \in Sites :
    emu.ea = SiteEa(s) => \A e \in FunctionEnds(s[1]) : Within(s[1], e)

\* C30 (amended): the same, for the instructions of the body up to the End of the
\* function.
C30_EdgesInFunction ==
  \A s \in Sites :
    emu.ea = SiteEa(s) =>
      \A e \in FunctionEnds(s[1]) : SiteEa(s) <= e => Within(s[1], e)

\* C30 witness: the End that closes a block was emulated after a Br and added a
\* jump to the End of the function, the next address
C30_Witness ==
  \E s \in Sites :
    /\ SiteOp(s) = "end"
    /\ emu.ea = SiteEa(s)
    /\ After(s) \in FunctionEnds(s[1])
    /\ emu.crefs = {fl_JF(SiteEa(s), After(s))}

====
